---- MODULE Spec2Model ----
(***************************************************************************)
(* Model of the value formatting engine of i3status-rust                   *)
(* (src/formatting/formatter.rs): construction of a formatter from a name  *)
(* and an argument list (new_formatter), and Formatter::format of the      *)
(* str, bar, eng, fix and flag formatters; and of the pacman block         *)
(* (src/blocks/pacman.rs): its construction, update() and click().         *)
(*                                                                         *)
(* Conventions                                                             *)
(*  - a string handled character by character is a sequence of one-        *)
(*    character strings; an argument key or value is a TLA+ string;        *)
(*  - Option<T> is a sequence of length at most one: None == << >>,        *)
(*    Some(x) == <<x>>;                                                    *)
(*  - an f64 is an exact rational n/d (d > 0) or NaN.  The arithmetic the  *)
(*    code does on it is done exactly; every comparison with NaN is FALSE, *)
(*    as in IEEE 754;                                                      *)
(*  - a Result is a record [kind, out, err] with kind "ok", "err" or       *)
(*    "panic".                                                             *)
(***************************************************************************)
EXTENDS Integers, Sequences, FiniteSets, TLC

VARIABLES
    name,   \* the formatter name given to new_formatter ("" before any call)
    args,   \* the argument list given to new_formatter
    fmt,    \* [status, f, err]: the formatter held by the caller
    now,    \* the monotonic clock, in milliseconds
    last,   \* [called, val, res]: the call of Formatter::format of this render cycle
    pacman, \* [status, b]: the Pacman block (b) once ConfigBlock::new has run
    packages, \* Option: the package list the latest successful update() read
    pcall   \* [op, ok]: the latest call made on the block

fvars == <<name, args, fmt, now, last>>
pvars == <<pacman, packages, pcall>>
vars == <<name, args, fmt, now, last, pacman, packages, pcall>>

----------------------------------------------------------------------------
(* Bounds of the model *)

\* longest argument list handed to new_formatter
MaxArgs == 3
\* number of clock steps
MaxTicks == 5
\* milliseconds per clock step
TickMs == 100
\* longest package list the package manager reports
MaxLines == 2

----------------------------------------------------------------------------
(* Generic helpers *)

None == << >>
Some(x) == <<x>>
IsSome(o) == Len(o) = 1
Unwrap(o) == o[1]

Min(a, b) == IF a <= b THEN a ELSE b
Max(a, b) == IF a >= b THEN a ELSE b

\* Iterator::take(n)
Take(s, n) == SubSeq(s, 1, Min(Len(s), n))
\* Iterator::skip(n)
Skip(s, n) == SubSeq(s, Min(Len(s), n) + 1, Len(s))
\* iter::repeat(c).take(n)
Repeat(c, n) == [i \in 1..n |-> c]

RECURSIVE Pow(_, _)
Pow(b, e) == IF e = 0 THEN 1 ELSE b * Pow(b, e - 1)

Ok(out) == [kind |-> "ok", out |-> out, err |-> ""]
Err(e) == [kind |-> "err", out |-> << >>, err |-> e]
Panic(e) == [kind |-> "panic", out |-> << >>, err |-> e]

----------------------------------------------------------------------------
(* f64 *)

F(n, d) == [nan |-> FALSE, n |-> n, d |-> d]
NaN == [nan |-> TRUE, n |-> 0, d |-> 1]

\* a < b on f64: FALSE when either side is NaN
FLt(a, b) == ~a.nan /\ ~b.nan /\ a.n * b.d < b.n * a.d

\* (x * 1e3) as u64: a float-to-integer cast truncates, saturates below at 0
\* and maps NaN to 0
MillisAsU64(x) ==
    IF x.nan THEN 0
    ELSE IF x.n < 0 THEN 0
    ELSE (x.n * 1000) \div x.d

----------------------------------------------------------------------------
(* Values (formatting/value.rs ValueInner) *)

Text(t) == [tag |-> "Text", text |-> t, val |-> F(0, 1), unit |-> "none"]
Icon(t) == [tag |-> "Icon", text |-> t, val |-> F(0, 1), unit |-> "none"]
Number(v, u) == [tag |-> "Number", text |-> << >>, val |-> v, unit |-> u]
Flag == [tag |-> "Flag", text |-> << >>, val |-> F(0, 1), unit |-> "none"]

----------------------------------------------------------------------------
(* Escaping sink (escape.rs CollectEscaped) *)

EscapeChar(c) ==
    CASE c = "&" -> <<"&", "a", "m", "p", ";">>
      [] c = "<" -> <<"&", "l", "t", ";">>
      [] c = ">" -> <<"&", "g", "t", ";">>
      [] OTHER -> <<c>>

RECURSIVE CollectPangoEscaped(_)
CollectPangoEscaped(s) ==
    IF s = << >> THEN << >>
    ELSE EscapeChar(Head(s)) \o CollectPangoEscaped(Tail(s))

----------------------------------------------------------------------------
(* Argument value parsers: str::parse::<usize>, ::<bool>, ::<f64> *)

UsizeTable ==
    ("0" :> 0) @@ ("1" :> 1) @@ ("2" :> 2) @@ ("3" :> 3)

ParseUsize(s) == IF s \in DOMAIN UsizeTable THEN Some(UsizeTable[s]) ELSE None

ParseBool(s) ==
    IF s = "true" THEN Some(TRUE) ELSE IF s = "false" THEN Some(FALSE) ELSE None

F64Table ==
    ("0" :> F(0, 1)) @@ ("1" :> F(1, 1)) @@ ("2" :> F(2, 1)) @@ ("3" :> F(3, 1))
      @@ ("100" :> F(100, 1)) @@ ("-1" :> F(-1, 1))
      @@ ("-4" :> F(-4, 1)) @@ ("0.1" :> F(1, 10)) @@ ("0.05" :> F(1, 20))
      @@ ("0.2005" :> F(401, 2000)) @@ ("NaN" :> NaN)

ParseF64(s) == IF s \in DOMAIN F64Table THEN Some(F64Table[s]) ELSE None

----------------------------------------------------------------------------
(* Defaults *)

DEFAULT_STR_MIN_WIDTH == 0
\* usize::MAX; no text of the model is that long
DEFAULT_STR_MAX_WIDTH == 2147483647
DEFAULT_STR_PANGO == FALSE
DEFAULT_STR_ROT_INTERVAL == None

DEFAULT_STRING_FORMATTER ==
    [type |-> "str",
     min_width |-> DEFAULT_STR_MIN_WIDTH,
     max_width |-> DEFAULT_STR_MAX_WIDTH,
     pango |-> DEFAULT_STR_PANGO,
     rot_interval_ms |-> None,
     init_time |-> None]

----------------------------------------------------------------------------
(* new_formatter, "str" arm *)

\* StrArg with an unknown key ignored
StrArg_IgnoreUnknown(acc, arg) ==
    CASE arg.key \in {"min_width", "min_w"} ->
            IF IsSome(ParseUsize(arg.val))
            THEN [acc EXCEPT !.min_width = Unwrap(ParseUsize(arg.val))]
            ELSE [acc EXCEPT !.err = Some("Width must be a positive integer")]
      [] arg.key \in {"max_width", "max_w"} ->
            IF IsSome(ParseUsize(arg.val))
            THEN [acc EXCEPT !.max_width = Unwrap(ParseUsize(arg.val))]
            ELSE [acc EXCEPT !.err = Some("Width must be a positive integer")]
      [] arg.key = "pango" ->
            IF IsSome(ParseBool(arg.val))
            THEN [acc EXCEPT !.pango = Unwrap(ParseBool(arg.val))]
            ELSE [acc EXCEPT !.err = Some("pango must be true or false")]
      [] arg.key = "rot_interval" ->
            IF IsSome(ParseF64(arg.val))
            THEN [acc EXCEPT !.rot_interval = Some(Unwrap(ParseF64(arg.val)))]
            ELSE [acc EXCEPT !.err = Some("Interval must be a positive number")]
      [] OTHER -> acc

\* the loop body of the "str" arm: one argument applied to the locals
StrArg(acc, arg) ==
    CASE arg.key \in {"min_width", "min_w"} ->
            IF IsSome(ParseUsize(arg.val))
            THEN [acc EXCEPT !.min_width = Unwrap(ParseUsize(arg.val))]
            ELSE [acc EXCEPT !.err = Some("Width must be a positive integer")]
      [] arg.key \in {"max_width", "max_w"} ->
            IF IsSome(ParseUsize(arg.val))
            THEN [acc EXCEPT !.max_width = Unwrap(ParseUsize(arg.val))]
            ELSE [acc EXCEPT !.err = Some("Width must be a positive integer")]
      [] arg.key = "pango" ->
            IF IsSome(ParseBool(arg.val))
            THEN [acc EXCEPT !.pango = Unwrap(ParseBool(arg.val))]
            ELSE [acc EXCEPT !.err = Some("pango must be true or false")]
      [] arg.key = "rot_interval" ->
            IF IsSome(ParseF64(arg.val))
            THEN [acc EXCEPT !.rot_interval = Some(Unwrap(ParseF64(arg.val)))]
            ELSE [acc EXCEPT !.err = Some("Interval must be a positive number")]
      [] OTHER -> [acc EXCEPT !.err = Some("Unknown argumnt for 'str'")]

\* for arg in args { ... }, leaving at the first error
RECURSIVE StrArgs(_, _)
StrArgs(acc, as) ==
    IF as = << >> \/ IsSome(acc.err) THEN acc
    ELSE StrArgs(StrArg(acc, Head(as)), Tail(as))

\* the checks after the loop and the construction of the StrFormatter
StrBuild(acc, t) ==
    IF IsSome(acc.err) THEN [status |-> "err", f |-> << >>, err |-> Unwrap(acc.err)]
    ELSE IF acc.max_width < acc.min_width
    THEN [status |-> "err", f |-> << >>,
          err |-> "Max width must be greater of equal to min width"]
    ELSE IF IsSome(acc.rot_interval) /\ FLt(Unwrap(acc.rot_interval), F(1, 10))
    THEN [status |-> "err", f |-> << >>, err |-> "Interval must be greater than 0.1"]
    ELSE [status |-> "ok",
          f |-> [type |-> "str",
                 min_width |-> acc.min_width,
                 max_width |-> acc.max_width,
                 pango |-> acc.pango,
                 rot_interval_ms |->
                     IF IsSome(acc.rot_interval)
                     THEN Some(MillisAsU64(Unwrap(acc.rot_interval)))
                     ELSE None,
                 init_time |-> Some(t)],
          err |-> ""]

NewStr(as, t) ==
    StrBuild(StrArgs([min_width |-> DEFAULT_STR_MIN_WIDTH,
                      max_width |-> DEFAULT_STR_MAX_WIDTH,
                      pango |-> DEFAULT_STR_PANGO,
                      rot_interval |-> DEFAULT_STR_ROT_INTERVAL,
                      err |-> None], as), t)

----------------------------------------------------------------------------
(* StrFormatter::format *)

\* the guard of the rotating arm
StrRotates(f, text) ==
    IsSome(f.rot_interval_ms) /\ IsSome(f.init_time) /\ Len(text) > f.max_width

\* the characters of the rotating arm before they are collected
StrRotChars(f, text, elapsed) ==
    LET width == Len(text) + 1
        step == (elapsed \div Unwrap(f.rot_interval_ms)) % width
        w1 == Min(f.max_width, width - step)
    IN Take(Take(Skip(text \o <<"|">>, step), w1) \o text, f.max_width)

\* StrPadChars without the truncation to max_width
StrPadChars_NoTake(f, text) ==
    text \o Repeat(" ", Max(f.min_width - Len(text), 0))

\* the characters of the other arm before they are collected
StrPadChars(f, text) ==
    Take(text \o Repeat(" ", Max(f.min_width - Len(text), 0)), f.max_width)

StrText(f, text, elapsed) ==
    IF StrRotates(f, text)
    THEN IF Unwrap(f.rot_interval_ms) = 0
         THEN Panic("attempt to divide by zero")
         ELSE Ok(CollectPangoEscaped(StrRotChars(f, text, elapsed)))
    ELSE IF f.pango
         THEN Ok(StrPadChars(f, text))
         ELSE Ok(CollectPangoEscaped(StrPadChars(f, text)))

\* StrFormat with the Flag arm answering as FlagFormatter does
StrFormat_FlagOk(f, v, elapsed) ==
    CASE v.tag = "Text" -> StrText(f, v.text, elapsed)
      [] v.tag = "Icon" -> Ok(v.text)
      [] v.tag = "Number" -> Err("A number cannot be formatted with 'str' formatter")
      [] v.tag = "Flag" -> Ok(<< >>)

StrFormat(f, v, elapsed) ==
    CASE v.tag = "Text" -> StrText(f, v.text, elapsed)
      [] v.tag = "Icon" -> Ok(v.text)
      [] v.tag = "Number" -> Err("A number cannot be formatted with 'str' formatter")
      [] v.tag = "Flag" -> Err("A flag cannot be formatted with 'str' formatter")

\* StrFormatter::interval
StrInterval(f) == f.rot_interval_ms

----------------------------------------------------------------------------
(* new_formatter, "bar" arm *)

DEFAULT_BAR_WIDTH == 5
DEFAULT_BAR_MAX_VAL == F(100, 1)

BarArg(acc, arg) ==
    CASE arg.key \in {"width", "w"} ->
            IF IsSome(ParseUsize(arg.val))
            THEN [acc EXCEPT !.width = Unwrap(ParseUsize(arg.val))]
            ELSE [acc EXCEPT !.err = Some("Width must be a positive integer")]
      [] arg.key = "max_value" ->
            IF IsSome(ParseF64(arg.val))
            THEN [acc EXCEPT !.max_value = Unwrap(ParseF64(arg.val))]
            ELSE [acc EXCEPT !.err = Some("Max value must be a number")]
      [] OTHER -> [acc EXCEPT !.err = Some("Unknown argumnt for 'bar'")]

RECURSIVE BarArgs(_, _)
BarArgs(acc, as) ==
    IF as = << >> \/ IsSome(acc.err) THEN acc
    ELSE BarArgs(BarArg(acc, Head(as)), Tail(as))

BarBuild(acc) ==
    IF IsSome(acc.err) THEN [status |-> "err", f |-> << >>, err |-> Unwrap(acc.err)]
    ELSE [status |-> "ok",
          f |-> [type |-> "bar", width |-> acc.width, max_value |-> acc.max_value],
          err |-> ""]

NewBar(as) ==
    BarBuild(BarArgs([width |-> DEFAULT_BAR_WIDTH,
                      max_value |-> DEFAULT_BAR_MAX_VAL,
                      err |-> None], as))

----------------------------------------------------------------------------
(* BarFormatter::format *)

\* VERTICAL_BAR_CHARS, indexed from 0: the glyph of fill level k (k eighths)
VERTICAL_BAR_CHARS == <<" ", "u258f", "u258e", "u258d", "u258c", "u258b", "u258a",
                        "u2589", "u2588">>

\* (val / max_value).clamp(0., 1.): x / 0 is +inf, -inf or NaN; clamp keeps NaN
BarNormalize(val, max_value) ==
    IF val.nan \/ max_value.nan THEN NaN
    ELSE IF max_value.n = 0
    THEN IF val.n = 0 THEN NaN ELSE IF val.n > 0 THEN F(1, 1) ELSE F(0, 1)
    ELSE LET sgn == IF max_value.n < 0 THEN -1 ELSE 1
             qn == sgn * val.n * max_value.d
             qd == sgn * max_value.n * val.d
         IN IF qn < 0 THEN F(0, 1) ELSE IF qn > qd THEN F(1, 1) ELSE F(qn, qd)

\* BarLevel without the clamp of the cell's fill to [0, 1]
BarLevel_NoClamp(val, width, i) ==
    IF val.nan THEN 0
    ELSE LET xn == val.n * width - i * val.d
         IN IF xn < 0 THEN 0 ELSE (8 * xn) \div val.d

\* BarLevel with the cells counted from 1
BarLevel_OffByOne(val, width, i) ==
    IF val.nan THEN 0
    ELSE LET xn == val.n * width - (i + 1) * val.d
         IN IF xn < 0 THEN 0
            ELSE IF xn > val.d THEN 8
            ELSE (8 * xn) \div val.d

\* ((chars_to_fill - i as f64).clamp(0., 1.) * 8.) as usize, with
\* chars_to_fill = val * width; a NaN casts to 0
BarLevel(val, width, i) ==
    IF val.nan THEN 0
    ELSE LET xn == val.n * width - i * val.d
         IN IF xn < 0 THEN 0
            ELSE IF xn > val.d THEN 8
            ELSE (8 * xn) \div val.d

\* (0..self.width).map(|i| VERTICAL_BAR_CHARS[..]).collect(); indexing an array
\* out of its bounds panics
BarCells(val, width) ==
    LET level == [i \in 1..width |-> BarLevel(val, width, i - 1)]
    IN IF \E i \in 1..width : level[i] \notin 0..8
       THEN Panic("index out of bounds")
       ELSE Ok([i \in 1..width |-> VERTICAL_BAR_CHARS[level[i] + 1]])

BarFormat(f, v) ==
    CASE v.tag = "Number" -> BarCells(BarNormalize(v.val, f.max_value), f.width)
      [] v.tag = "Text" -> Err("Text cannot be formatted with 'bar' formatter")
      [] v.tag = "Icon" -> Err("An icon cannot be formatted with 'bar' formatter")
      [] v.tag = "Flag" -> Err("A flag cannot be formatted with 'bar' formatter")

----------------------------------------------------------------------------
(* Units and prefixes (formatting/unit.rs, formatting/prefix.rs) *)

Units == {"Bytes", "Bits", "Percents", "None"}

\* <Unit as FromStr>::from_str
UnitTable == ("B" :> "Bytes") @@ ("b" :> "Bits") @@ ("%" :> "Percents")

ParseUnit(s) == IF s \in DOMAIN UnitTable THEN Some(UnitTable[s]) ELSE None

\* <Unit as Display>::fmt
UnitChars(u) ==
    CASE u = "Bytes" -> <<"B">>
      [] u = "Bits" -> <<"b">>
      [] u = "Percents" -> <<"%">>
      [] OTHER -> << >>

\* Unit::convert: a fixed factor inside one dimension, an error across dimensions
UnitConvert(u, val, new_unit) ==
    CASE u = new_unit -> Some(val)
      [] u = "Bytes" /\ new_unit = "Bits" -> Some(F(val.n * 8, val.d))
      [] u = "Bits" /\ new_unit = "Bytes" -> Some(F(val.n, val.d * 8))
      [] OTHER -> None

\* The prefixes, in increasing order; a prefix is its position in this order
PrefixNames == <<"Milli", "One", "OneButBinary", "Kilo", "Kibi", "Mega", "Mebi">>

RECURSIVE IndexOf(_, _, _)
IndexOf(s, x, i) == IF s[i] = x THEN i ELSE IndexOf(s, x, i + 1)

P(nm) == IndexOf(PrefixNames, nm, 1)

PrefixMinAvailable == P("Milli")
PrefixMaxAvailable == P("Mebi")

PrefixIsBinary(p) == PrefixNames[p] \in {"OneButBinary", "Kibi", "Mebi"}

\* the multiplier of a prefix, as the rational <<numerator, denominator>>
PrefixMul(p) ==
    CASE PrefixNames[p] = "Milli" -> <<1, 1000>>
      [] PrefixNames[p] = "Kilo" -> <<1000, 1>>
      [] PrefixNames[p] = "Kibi" -> <<1024, 1>>
      [] PrefixNames[p] = "Mega" -> <<1000000, 1>>
      [] PrefixNames[p] = "Mebi" -> <<1048576, 1>>
      [] OTHER -> <<1, 1>>

\* Prefix::apply: the magnitude divided by the multiplier
PrefixApply(p, val) == F(val.n * PrefixMul(p)[2], val.d * PrefixMul(p)[1])

Abs(x) == IF x < 0 THEN -x ELSE x

\* |val| >= the multiplier of p
AtLeast(val, p) == Abs(val.n) * PrefixMul(p)[2] >= PrefixMul(p)[1] * val.d

\* Prefix::eng: the decimal prefix that brings the magnitude into [1, 1000)
PrefixEng(val) ==
    IF val.n = 0 THEN P("One")
    ELSE IF AtLeast(val, P("Mega")) THEN P("Mega")
    ELSE IF AtLeast(val, P("Kilo")) THEN P("Kilo")
    ELSE IF AtLeast(val, P("One")) THEN P("One")
    ELSE P("Milli")

\* Prefix::eng_binary: the binary prefix that brings the magnitude into [1, 1024)
PrefixEngBinary(val) ==
    IF val.n = 0 THEN P("OneButBinary")
    ELSE IF AtLeast(val, P("Mebi")) THEN P("Mebi")
    ELSE IF AtLeast(val, P("Kibi")) THEN P("Kibi")
    ELSE P("OneButBinary")

\* Unit::clamp_prefix
UnitClampPrefix(u, p) ==
    CASE u \in {"Bytes", "Bits"} -> Max(p, P("One"))
      [] OTHER -> P("One")

\* Ord::clamp
PrefixClamp(p, lo, hi) == IF p < lo THEN lo ELSE IF p > hi THEN hi ELSE p

\* <Prefix as FromStr>::from_str
PrefixTable == ("K" :> P("Kilo")) @@ ("Ki" :> P("Kibi")) @@ ("1" :> P("One"))

ParsePrefix(s) == IF s \in DOMAIN PrefixTable THEN Some(PrefixTable[s]) ELSE None

\* <Prefix as Display>::fmt
PrefixChars(p) ==
    CASE PrefixNames[p] = "Milli" -> <<"m">>
      [] PrefixNames[p] = "Kilo" -> <<"K">>
      [] PrefixNames[p] = "Kibi" -> <<"K", "i">>
      [] PrefixNames[p] = "Mega" -> <<"M">>
      [] PrefixNames[p] = "Mebi" -> <<"M", "i">>
      [] OTHER -> << >>

----------------------------------------------------------------------------
(* EngFixConfig::from_args *)

DEFAULT_NUMBER_WIDTH == 2

DEFAULT_NUMBER_FORMATTER ==
    [type |-> "eng",
     width |-> DEFAULT_NUMBER_WIDTH,
     unit |-> None,
     unit_has_space |-> FALSE,
     unit_hidden |-> FALSE,
     prefix |-> None,
     prefix_has_space |-> FALSE,
     prefix_hidden |-> FALSE,
     prefix_forced |-> FALSE]

\* a boolean option: the field set, or the error of a value that does not parse
EngBoolArg(acc, field, arg, msg) ==
    IF IsSome(ParseBool(arg.val))
    THEN [acc EXCEPT !.cfg[field] = Unwrap(ParseBool(arg.val))]
    ELSE [acc EXCEPT !.err = Some(msg)]

EngArg(acc, arg) ==
    CASE arg.key \in {"width", "w"} ->
            IF IsSome(ParseUsize(arg.val))
            THEN [acc EXCEPT !.cfg.width = Unwrap(ParseUsize(arg.val))]
            ELSE [acc EXCEPT !.err = Some("Width must be a positive integer")]
      [] arg.key \in {"unit", "u"} ->
            IF IsSome(ParseUnit(arg.val))
            THEN [acc EXCEPT !.cfg.unit = Some(Unwrap(ParseUnit(arg.val)))]
            ELSE [acc EXCEPT !.err = Some("Unknown unit")]
      [] arg.key = "hide_unit" ->
            EngBoolArg(acc, "unit_hidden", arg, "hide_unit must be true or false")
      [] arg.key = "unit_space" ->
            EngBoolArg(acc, "unit_has_space", arg, "unit_space must be true or false")
      [] arg.key \in {"prefix", "p"} ->
            IF IsSome(ParsePrefix(arg.val))
            THEN [acc EXCEPT !.cfg.prefix = Some(Unwrap(ParsePrefix(arg.val)))]
            ELSE [acc EXCEPT !.err = Some("Unknown prefix")]
      [] arg.key = "hide_prefix" ->
            EngBoolArg(acc, "prefix_hidden", arg, "hide_prefix must be true or false")
      [] arg.key = "prefix_space" ->
            EngBoolArg(acc, "prefix_has_space", arg,
                       "prefix_space must be true or false")
      [] arg.key = "force_prefix" ->
            EngBoolArg(acc, "prefix_forced", arg, "force_prefix must be true or false")
      [] OTHER -> [acc EXCEPT !.err = Some("Unknown argumnt for 'fix'/'eng'")]

RECURSIVE EngArgs(_, _)
EngArgs(acc, as) ==
    IF as = << >> \/ IsSome(acc.err) THEN acc
    ELSE EngArgs(EngArg(acc, Head(as)), Tail(as))

\* Ok(Self {..}) or the error, as the formatter of the given type
EngFixFromArgs(as, type) ==
    LET acc == EngArgs([cfg |-> DEFAULT_NUMBER_FORMATTER, err |-> None], as)
    IN IF IsSome(acc.err)
       THEN [status |-> "err", f |-> << >>, err |-> Unwrap(acc.err)]
       ELSE [status |-> "ok", f |-> [acc.cfg EXCEPT !.type = type], err |-> ""]

----------------------------------------------------------------------------
(* EngFormatter::format *)

DigitChars == <<"0", "1", "2", "3", "4", "5", "6", "7", "8", "9">>

\* the decimal digits of a natural number
RECURSIVE NatChars(_)
NatChars(n) ==
    IF n < 10 THEN <<DigitChars[n + 1]>>
    ELSE NatChars(n \div 10) \o <<DigitChars[(n % 10) + 1]>>

IntChars(n) == IF n < 0 THEN <<"-">> \o NatChars(-n) ELSE NatChars(n)

\* f64::floor
Floor(val) == val.n \div val.d

\* the last k decimal digits of n, with leading zeros
RECURSIVE FracChars(_, _)
FracChars(n, k) ==
    IF k = 0 THEN << >>
    ELSE FracChars(n \div 10, k - 1) \o <<DigitChars[(n % 10) + 1]>>

\* format!("{:.*}", k, val): k decimals, rounded half to even
FixedChars(val, k) ==
    LET scaled == Abs(val.n) * Pow(10, k)
        q == scaled \div val.d
        r == scaled % val.d
        up == 2 * r > val.d \/ (2 * r = val.d /\ q % 2 = 1)
        m == IF up THEN q + 1 ELSE q
    IN (IF val.n < 0 THEN <<"-">> ELSE << >>)
         \o NatChars(m \div Pow(10, k))
         \o (IF k = 0 THEN << >> ELSE <<".">> \o FracChars(m % Pow(10, k), k))

\* (val.max(1.).log10().floor() + 1.0) as isize, one more for a negative value
EngDigits(val) ==
    Len(NatChars(Max(Floor(val), 1))) + (IF val.n < 0 THEN 1 ELSE 0)

\* the admissible prefix window <<min_prefix, max_prefix>>
EngWindow(f) ==
    IF IsSome(f.prefix) /\ f.prefix_forced THEN <<Unwrap(f.prefix), Unwrap(f.prefix)>>
    ELSE IF IsSome(f.prefix) THEN <<Unwrap(f.prefix), PrefixMaxAvailable>>
    ELSE <<PrefixMinAvailable, PrefixMaxAvailable>>

\* EngPrefix with the two clamps in the other order: the unit's clamp last
EngPrefix_UnitClampLast(f, unit, val) ==
    UnitClampPrefix(unit, PrefixClamp(IF PrefixIsBinary(EngWindow(f)[1])
                                      THEN PrefixEngBinary(val)
                                      ELSE PrefixEng(val),
                                      EngWindow(f)[1], EngWindow(f)[2]))

\* the prefix applied to the magnitude
EngPrefix(f, unit, val) ==
    PrefixClamp(UnitClampPrefix(unit, IF PrefixIsBinary(EngWindow(f)[1])
                                      THEN PrefixEngBinary(val)
                                      ELSE PrefixEng(val)),
                EngWindow(f)[1], EngWindow(f)[2])

\* EngNumeral without the arm of a budget of exactly 1
EngNumeral_NoOneArm(width, val) ==
    LET rest == width - EngDigits(val)
    IN IF rest <= 0 THEN IntChars(Floor(val))
       ELSE FixedChars(val, rest - 1)

\* the numeral: the match on width - digits
EngNumeral(width, val) ==
    LET rest == width - EngDigits(val)
    IN IF rest <= 0 THEN IntChars(Floor(val))
       ELSE IF rest = 1 THEN <<" ">> \o IntChars(Floor(val))
       ELSE FixedChars(val, rest - 1)

\* the suffix: the prefix and the unit, each with its optional space
EngSuffix(f, prefix, unit) ==
    LET display_prefix == ~f.prefix_hidden /\ prefix # P("One")
                            /\ prefix # P("OneButBinary")
        display_unit == ~f.unit_hidden /\ unit # "None"
    IN (IF display_prefix
        THEN (IF f.prefix_has_space THEN <<" ">> ELSE << >>) \o PrefixChars(prefix)
        ELSE << >>)
       \o (IF display_unit
           THEN (IF f.unit_has_space \/ (f.prefix_has_space /\ ~display_prefix)
                 THEN <<" ">> ELSE << >>) \o UnitChars(unit)
           ELSE << >>)

EngNumber(f, val0, unit0) ==
    LET conv == IF IsSome(f.unit) THEN UnitConvert(unit0, val0, Unwrap(f.unit))
                ELSE Some(val0)
        unit == IF IsSome(f.unit) THEN Unwrap(f.unit) ELSE unit0
    IN IF ~IsSome(conv) THEN Err("Failed to convert unit")
       ELSE LET prefix == EngPrefix(f, unit, Unwrap(conv))
                val == PrefixApply(prefix, Unwrap(conv))
            IN Ok(EngNumeral(f.width, val) \o EngSuffix(f, prefix, unit))

EngFormat(f, v) ==
    CASE v.tag = "Number" -> EngNumber(f, v.val, v.unit)
      [] v.tag = "Text" -> Err("Text cannot be formatted with 'eng' formatter")
      [] v.tag = "Icon" -> Err("An icon cannot be formatted with 'eng' formatter")
      [] v.tag = "Flag" -> Err("A flag cannot be formatted with 'eng' formatter")

----------------------------------------------------------------------------
(* FixFormatter::format, FlagFormatter::format *)

\* FixFormat falling back to the eng rendering
FixFormat_AsEng(f, v) == EngFormat(f, v)

FixFormat(f, v) ==
    CASE v.tag = "Number" -> Err("'fix' formatter is not implemented yet")
      [] v.tag = "Text" -> Err("Text cannot be formatted with 'fix' formatter")
      [] v.tag = "Icon" -> Err("An icon cannot be formatted with 'fix' formatter")
      [] v.tag = "Flag" -> Err("A flag cannot be formatted with 'fix' formatter")

DEFAULT_FLAG_FORMATTER == [type |-> "flag"]

FlagFormat(f, v) ==
    IF v.tag = "Flag" THEN Ok(<< >>)
    ELSE Panic("internal error: entered unreachable code")

----------------------------------------------------------------------------
(* new_formatter and the Formatter trait *)

new_formatter(nm, as, t) ==
    CASE nm = "str" -> NewStr(as, t)
      [] nm = "bar" -> NewBar(as)
      [] nm = "eng" -> EngFixFromArgs(as, "eng")
      [] nm = "fix" -> EngFixFromArgs(as, "fix")
      [] OTHER -> [status |-> "err", f |-> << >>, err |-> "Unknown formatter"]

\* Formatter::format, dispatched on the formatter's type
Format(f, v, t) ==
    CASE f.type = "str" ->
            StrFormat(f, v, IF IsSome(f.init_time) THEN t - Unwrap(f.init_time) ELSE 0)
      [] f.type = "bar" -> BarFormat(f, v)
      [] f.type = "eng" -> EngFormat(f, v)
      [] f.type = "fix" -> FixFormat(f, v)
      [] f.type = "flag" -> FlagFormat(f, v)

\* Formatter::interval: StrFormatter overrides the default, which is None
Interval(f) == IF f.type = "str" THEN StrInterval(f) ELSE None

----------------------------------------------------------------------------
(* The pacman block (blocks/pacman.rs)                                     *)
(*                                                                         *)
(* A line of the package list is the sequence of its words; the list is    *)
(* the sequence of its lines.  A regex is the set of words it matches      *)
(* anywhere in a line (an alternation of literals).                        *)

\* Regex::new: the regexes of the model, and a string that is no regex
RegexTable ==
    ("linux" :> {"linux"}) @@ ("linux|vim" :> {"linux", "vim"})
      @@ ("zsh" :> {"zsh"})

RegexNew(str) == IF str \in DOMAIN RegexTable THEN Some(RegexTable[str]) ELSE None

\* Regex::is_match
IsMatch(regex, line) == \E i \in 1..Len(line) : line[i] \in regex

\* line.contains("[ignored]")
ContainsIgnored(line) == \E i \in 1..Len(line) : line[i] = "[ignored]"

\* FormatTemplate::from_string: the templates of the model, as sequences of
\* literal text and the placeholder {count}
TemplateTable ==
    ("{count}" :> <<"{count}">>) @@ ("{count} new" :> <<"{count}", " ", "new">>)
      @@ ("none" :> <<"none">>)

TemplateFromString(str) ==
    IF str \in DOMAIN TemplateTable THEN Some(TemplateTable[str]) ELSE None

\* FormatTemplate::render_static_str with the values {count} => count
RECURSIVE RenderStaticStr(_, _)
RenderStaticStr(template, count) ==
    IF template = << >> THEN << >>
    ELSE (IF Head(template) = "{count}" THEN NatChars(count) ELSE <<Head(template)>>)
           \o RenderStaticStr(Tail(template), count)

\* PacmanConfig::default_format, PacmanConfig::default_critical_updates_regex
PacmanDefaultFormat == "{count}"
PacmanDefaultCriticalUpdatesRegex == None

\* <Pacman as ConfigBlock>::new
PacmanNew(block_config) ==
    IF ~IsSome(TemplateFromString(block_config.format))
         \/ ~IsSome(TemplateFromString(block_config.format_singular))
         \/ ~IsSome(TemplateFromString(block_config.format_up_to_date))
    THEN [status |-> "err", b |-> << >>]
    ELSE IF IsSome(block_config.critical_updates_regex)
            /\ ~IsSome(RegexNew(Unwrap(block_config.critical_updates_regex)))
    THEN [status |-> "err", b |-> << >>]
    ELSE [status |-> "ok",
          b |-> [format |-> Unwrap(TemplateFromString(block_config.format)),
                 format_singular |->
                     Unwrap(TemplateFromString(block_config.format_singular)),
                 format_up_to_date |->
                     Unwrap(TemplateFromString(block_config.format_up_to_date)),
                 critical_updates_regex |->
                     IF IsSome(block_config.critical_updates_regex)
                     THEN RegexNew(Unwrap(block_config.critical_updates_regex))
                     ELSE None,
                 output |-> [text |-> << >>, state |-> "Idle"]]]

\* get_update_count
GetUpdateCount(updates) ==
    Len(SelectSeq(updates, LAMBDA line : ~ContainsIgnored(line)))

\* has_critical_update
HasCriticalUpdate(updates, regex) ==
    Len(SelectSeq(updates, LAMBDA line : IsMatch(regex, line))) > 0

\* the text update() sets
PacmanText(b, count) ==
    IF count = 0 THEN RenderStaticStr(b.format_up_to_date, count)
    ELSE IF count = 1 THEN RenderStaticStr(b.format_singular, count)
    ELSE RenderStaticStr(b.format, count)

\* the state update() sets
PacmanState(b, packages_to_update, count) ==
    IF count = 0 THEN "Idle"
    ELSE IF IsSome(b.critical_updates_regex)
            /\ HasCriticalUpdate(packages_to_update, Unwrap(b.critical_updates_regex))
    THEN "Critical"
    ELSE "Info"

\* <Pacman as Block>::update; env is what the system answers: whether
\* fakeroot is found ("found", "missing", or "error" when the lookup fails)
\* and the package list the commands print (None when they fail)
PacmanUpdate(b, env) ==
    IF env.fakeroot # "found" THEN [b |-> b, ok |-> FALSE]
    ELSE IF ~IsSome(env.list) THEN [b |-> b, ok |-> FALSE]
    ELSE LET packages_to_update == Unwrap(env.list)
             count == GetUpdateCount(packages_to_update)
         IN [b |-> [b EXCEPT !.output =
                        [text |-> PacmanText(b, count),
                         state |-> PacmanState(b, packages_to_update, count)]],
             ok |-> TRUE]

\* the guard of <Pacman as Block>::click
PacmanClickUpdates(event) ==
    IsSome(event.name) /\ Unwrap(event.name) = "pacman" /\ event.button = "Left"

\* <Pacman as Block>::click
PacmanClick(b, event, env) ==
    IF PacmanClickUpdates(event) THEN PacmanUpdate(b, env) ELSE [b |-> b, ok |-> TRUE]

----------------------------------------------------------------------------
(* Inputs                                                                  *)
(*                                                                         *)
(* The magnitudes of the Number values are finite; a NaN or an infinity    *)
(* enters only through the arguments (max_value, rot_interval) and through *)
(* the division by a max_value of 0.  An infinite rot_interval, which the  *)
(* cast saturates to u64::MAX, is not in the pool.  The widths and the     *)
(* magnitudes are small enough for every product of the model to stay      *)
(* inside 32 bits.                                                         *)

Names == {"str", "bar", "eng", "fix", "flag"}

A(k, v) == [key |-> k, val |-> v]

\* arguments of the "str" arm
StrArgPool ==
    { A("min_width", "1"), A("min_w", "3"), A("max_width", "2"), A("max_w", "0"),
      A("max_width", "-1"), A("pango", "true"), A("rot_interval", "0.1"),
      A("rot_interval", "0.2005"), A("rot_interval", "0.05"),
      A("rot_interval", "NaN") }

\* arguments of the "bar" arm
BarArgPool ==
    { A("width", "3"), A("w", "0"), A("w", "x"), A("max_value", "3"),
      A("max_value", "0"), A("max_value", "-4"), A("max_value", "NaN") }

\* arguments of EngFixConfig::from_args
EngArgPool ==
    { A("width", "3"), A("w", "0"), A("unit", "B"), A("u", "b"),
      A("hide_unit", "true"), A("unit_space", "true"), A("prefix", "Ki"),
      A("p", "K"), A("hide_prefix", "true"), A("hide_prefix", "yes"),
      A("prefix_space", "true"), A("force_prefix", "true") }

\* the arguments tried with a formatter name: its own, one that belongs to
\* another formatter, and one no formatter knows
ArgPool(nm) ==
    CASE nm = "str" -> StrArgPool \cup {A("width", "3"), A("bogus", "1")}
      [] nm = "bar" -> BarArgPool \cup {A("unit", "B"), A("bogus", "1")}
      [] nm \in {"eng", "fix"} -> EngArgPool \cup {A("max_value", "3"), A("bogus", "1")}
      [] OTHER -> {A("pango", "true"), A("bogus", "1")}

ArgLists(nm) == UNION { [1..n -> ArgPool(nm)] : n \in 0..MaxArgs }

Texts ==
    { << >>, <<"<", "a">>, <<"a", "<", "b">>, <<"&", "b", ">", "d">> }

Values ==
    { Text(t) : t \in Texts }
      \cup { Icon(<<"<", "i", ">">>), Flag }
      \cup { Number(F(50, 1), "None"), Number(F(1, 1), "None"),
             Number(F(-10, 1), "None"), Number(F(150, 1), "Percents"),
             Number(F(0, 1), "Bytes"), Number(F(1536, 1), "Bytes"),
             Number(F(2, 1), "Bits"), Number(F(1048576, 1), "Bits") }

----------------------------------------------------------------------------
(* The state machine: one formatter is constructed, then used to format    *)
(* values while time passes.                                               *)

NoCall == [called |-> FALSE, val |-> Flag, res |-> Ok(<< >>)]

Init ==
    /\ name = ""
    /\ args = << >>
    /\ fmt = [status |-> "none", f |-> << >>, err |-> ""]
    /\ now = 0
    /\ last = NoCall
    /\ pacman = [status |-> "none", b |-> << >>]
    /\ packages = None
    /\ pcall = [op |-> "none", ok |-> TRUE]

\* the caller builds the formatter of a format specification
Construct ==
    /\ fmt.status = "none"
    /\ \E nm \in Names : \E as \in ArgLists(nm) :
          /\ name' = nm
          /\ args' = as
          /\ fmt' = new_formatter(nm, as, now)
    /\ UNCHANGED <<now, last>>
    /\ UNCHANGED pvars

\* the caller uses one of the three default formatters
UseDefault ==
    /\ fmt.status = "none"
    /\ \E f \in {DEFAULT_STRING_FORMATTER, DEFAULT_NUMBER_FORMATTER,
                 DEFAULT_FLAG_FORMATTER} :
          fmt' = [status |-> "ok", f |-> f, err |-> ""]
    /\ name' = "default"
    /\ UNCHANGED <<args, now, last>>
    /\ UNCHANGED pvars

\* the caller renders a value of this render cycle
Render ==
    /\ fmt.status = "ok"
    /\ \E v \in Values :
          last' = [called |-> TRUE, val |-> v, res |-> Format(fmt.f, v, now)]
    /\ UNCHANGED <<name, args, fmt, now>>
    /\ UNCHANGED pvars

\* time passes and the next render cycle begins, the rendered string of this
\* one consumed; only a formatter that reports an interval is rendered again
\* without a new value, and only it reads the clock
Tick ==
    /\ fmt.status = "ok"
    /\ IsSome(Interval(fmt.f))
    /\ now < MaxTicks * TickMs
    /\ now' = now + TickMs
    /\ last' = NoCall
    /\ UNCHANGED <<name, args, fmt>>
    /\ UNCHANGED pvars

Next == Construct \/ UseDefault \/ Render \/ Tick

Spec == Init /\ [][Next]_vars

----------------------------------------------------------------------------
(* The state machine of the pacman block: the block is built from its      *)
(* configuration, then updated by the scheduler and clicked by the user.   *)

PacmanConfigs ==
    [format : {PacmanDefaultFormat},
     format_singular : {PacmanDefaultFormat, "{count} new", "{count"},
     format_up_to_date : {PacmanDefaultFormat, "none"},
     critical_updates_regex :
         {PacmanDefaultCriticalUpdatesRegex, Some("linux"), Some("linux|vim"),
          Some("zsh"), Some("(")}]

\* the lines pacman -Qu prints: a package, alone or marked as ignored
Lines ==
    { <<pkg, "->">> \o mark : pkg \in {"linux", "vim"},
                              mark \in {<< >>, <<"[ignored]">>} }

PackageLists == UNION { [1..n -> Lines] : n \in 0..MaxLines }

Envs == [fakeroot : {"found", "missing", "error"},
         list : {None} \cup { Some(l) : l \in PackageLists }]

Events == [name : {None, Some("pacman"), Some("time")}, button : {"Left", "Right"}]

\* the block is built from its configuration
BlockNew ==
    /\ pacman.status = "none"
    /\ \E block_config \in PacmanConfigs :
          /\ pacman' = PacmanNew(block_config)
          /\ pcall' = [op |-> "new", ok |-> PacmanNew(block_config).status = "ok"]
    /\ UNCHANGED packages
    /\ UNCHANGED fvars

\* the scheduler calls update()
BlockUpdate ==
    /\ pacman.status = "ok"
    /\ \E env \in Envs :
          LET r == PacmanUpdate(pacman.b, env)
          IN /\ pacman' = [pacman EXCEPT !.b = r.b]
             /\ packages' = IF r.ok THEN env.list ELSE packages
             /\ pcall' = [op |-> "update", ok |-> r.ok]
    /\ UNCHANGED fvars

\* the user clicks the bar
BlockClick ==
    /\ pacman.status = "ok"
    /\ \E event \in Events, env \in Envs :
          LET r == PacmanClick(pacman.b, event, env)
          IN /\ pacman' = [pacman EXCEPT !.b = r.b]
             /\ packages' = IF r.ok /\ PacmanClickUpdates(event)
                             THEN env.list ELSE packages
             /\ pcall' = [op |-> "click", ok |-> r.ok]
    /\ UNCHANGED fvars

PacmanNext == BlockNew \/ BlockUpdate \/ BlockClick

SpecPacman == Init /\ [][PacmanNext]_vars

----------------------------------------------------------------------------
(* Properties: helpers *)

\* the latest call of format was made on a formatter of the given type
Called(type) == last.called /\ fmt.f.type = type

TypeMismatchErrors ==
    { "A number cannot be formatted with 'str' formatter",
      "A flag cannot be formatted with 'str' formatter",
      "Text cannot be formatted with 'bar' formatter",
      "An icon cannot be formatted with 'bar' formatter",
      "A flag cannot be formatted with 'bar' formatter",
      "Text cannot be formatted with 'eng' formatter",
      "An icon cannot be formatted with 'eng' formatter",
      "A flag cannot be formatted with 'eng' formatter",
      "Text cannot be formatted with 'fix' formatter",
      "An icon cannot be formatted with 'fix' formatter",
      "A flag cannot be formatted with 'fix' formatter" }

TypeMismatch(res) == res.kind = "err" /\ res.err \in TypeMismatchErrors

Range(s) == { s[i] : i \in 1..Len(s) }

StartsWith(s, p) == Len(s) >= Len(p) /\ SubSeq(s, 1, Len(p)) = p

Entities == { EscapeChar(c) : c \in {"&", "<", ">"} }

\* the source characters of an escaped string: each entity read back as one
\* character
RECURSIVE Unescape(_)
Unescape(s) ==
    IF s = << >> THEN << >>
    ELSE IF StartsWith(s, <<"&", "a", "m", "p", ";">>)
         THEN <<"&">> \o Unescape(SubSeq(s, 6, Len(s)))
    ELSE IF StartsWith(s, <<"&", "l", "t", ";">>)
         THEN <<"<">> \o Unescape(SubSeq(s, 5, Len(s)))
    ELSE IF StartsWith(s, <<"&", "g", "t", ";">>)
         THEN <<">">> \o Unescape(SubSeq(s, 5, Len(s)))
    ELSE <<Head(s)>> \o Unescape(Tail(s))

\* no markup character is left in s: no '<', no '>', and every '&' opens an
\* entity
NoRawMarkup(s) ==
    \A i \in 1..Len(s) :
        /\ s[i] \notin {"<", ">"}
        /\ s[i] = "&" => \E e \in Entities : StartsWith(SubSeq(s, i, Len(s)), e)

\* the time the formatter saw at the call of this render cycle
LastElapsed == now - Unwrap(fmt.f.init_time)

----------------------------------------------------------------------------
(* C1 *)

\* C1 as stated: StrFormatter::format returns a type-mismatch error for every
\* value that is not Text (Number, Icon, Flag) and Ok only for Text.
C1_OnlyTextIsOk ==
    Called("str") =>
        /\ last.val.tag # "Text" => TypeMismatch(last.res)
        /\ last.res.kind = "ok" => last.val.tag = "Text"

\* C1, amended: StrFormatter::format returns a type-mismatch error for Number
\* and Flag, returns an Icon's string unchanged (Ok, not escaped), and returns
\* Ok only for Text and Icon.
C1_NumberAndFlagRejected ==
    Called("str") =>
        /\ last.val.tag \in {"Number", "Flag"} => TypeMismatch(last.res)
        /\ last.val.tag = "Icon" => last.res = Ok(last.val.text)
        /\ last.res.kind = "ok" => last.val.tag \in {"Text", "Icon"}

C1_Witness ==
    /\ Called("str")
    /\ last.val.tag = "Icon"
    /\ last.res.kind = "ok"
    /\ "<" \in Range(last.res.out)

----------------------------------------------------------------------------
(* C2 *)

\* the case of C2: a str formatter built by new_formatter with rot_interval
\* set has formatted a Text longer than max_width
C2_Case ==
    /\ Called("str")
    /\ name = "str"
    /\ IsSome(fmt.f.rot_interval_ms)
    /\ last.val.tag = "Text"
    /\ Len(last.val.text) > fmt.f.max_width

\* the max_width characters of the circular buffer text + '|' from phase on
C2_Window(text, phase, w) ==
    [k \in 1..w |-> (text \o <<"|">>)[((phase + k - 1) % (Len(text) + 1)) + 1]]

C2_Phase == (LastElapsed \div Unwrap(fmt.f.rot_interval_ms)) % (Len(last.val.text) + 1)

\* C2 as stated: in that case format returns the window of max_width
\* characters that starts at phase = floor(elapsed / rot_interval_ms) mod
\* (len + 1) in the circular buffer text + '|' (escaped afterwards), with no
\* padding.
C2_RotatingWindow ==
    C2_Case =>
        /\ last.res.kind = "ok"
        /\ Unescape(last.res.out) = C2_Window(last.val.text, C2_Phase, fmt.f.max_width)

\* The same window whenever the stored interval is not zero
RotatingWindowNonZero ==
    (C2_Case /\ Unwrap(fmt.f.rot_interval_ms) # 0) =>
        /\ last.res.kind = "ok"
        /\ last.res.out =
             CollectPangoEscaped(C2_Window(last.val.text, C2_Phase, fmt.f.max_width))

----------------------------------------------------------------------------
(* C3 *)

\* C3 as stated: with pango = true no output character of format(Text(t)) is
\* the product of escaping (each is a character of t, a padding space or the
\* separator), on the rotating path too; with pango = false no markup
\* character is left unescaped.
C3_PangoNeverEscapes ==
    (Called("str") /\ last.val.tag = "Text" /\ last.res.kind = "ok") =>
        /\ fmt.f.pango =>
              Range(last.res.out) \subseteq Range(last.val.text) \cup {" ", "|"}
        /\ ~fmt.f.pango => NoRawMarkup(last.res.out)

----------------------------------------------------------------------------
(* C4 *)

C4_Case ==
    /\ Called("str")
    /\ last.val.tag = "Text"
    /\ ~StrRotates(fmt.f, last.val.text)

\* the source characters of the output: the entities read back unless the
\* output was never escaped
C4_Source == IF fmt.f.pango THEN last.res.out ELSE Unescape(last.res.out)

\* C4: when rotation does not apply, format(Text(t)) yields, in source
\* characters, exactly max(min(len(t), w), min_width) characters: t truncated
\* to w = max_width characters, or t followed by spaces up to min_width.
C4_PaddedOrTruncated ==
    C4_Case =>
        LET t == last.val.text
            w == fmt.f.max_width
            n == Max(Min(Len(t), w), fmt.f.min_width)
        IN /\ fmt.f.min_width <= w
           /\ last.res.kind = "ok"
           /\ Len(C4_Source) = n
           /\ \A i \in 1..n : C4_Source[i] = IF i <= Len(t) THEN t[i] ELSE " "

C4_Witness ==
    /\ C4_Case
    /\ name = "str"
    /\ Len(last.val.text) < fmt.f.min_width
    /\ "<" \in Range(last.val.text)
    /\ ~fmt.f.pango
    /\ Len(last.res.out) > fmt.f.min_width

----------------------------------------------------------------------------
(* C5 *)

\* C5 as stated: every str formatter new_formatter returns has
\* min_width <= max_width and, when an interval is stored, an interval of at
\* least 100 ms.
C5_StrFormatterBounds ==
    (name = "str" /\ fmt.status = "ok") =>
        /\ fmt.f.min_width <= fmt.f.max_width
        /\ IsSome(fmt.f.rot_interval_ms) => Unwrap(fmt.f.rot_interval_ms) >= 100

----------------------------------------------------------------------------
(* C6 *)

\* the keys recognised for each formatter name
KnownKeys(nm) ==
    CASE nm = "str" ->
            {"min_width", "min_w", "max_width", "max_w", "pango", "rot_interval"}
      [] nm = "bar" -> {"width", "w", "max_value"}
      [] nm \in {"eng", "fix"} ->
            {"width", "w", "unit", "u", "hide_unit", "unit_space", "prefix", "p",
             "hide_prefix", "prefix_space", "force_prefix"}

C6_HasUnknownKey ==
    /\ name \in {"str", "bar", "eng", "fix"}
    /\ \E i \in 1..Len(args) : args[i].key \notin KnownKeys(name)

\* C6: new_formatter fails whenever the argument list holds a key that is not
\* recognised for the named formatter, wherever the key stands and whatever
\* the other arguments are; no formatter is produced.
C6_UnknownKeyRejected ==
    C6_HasUnknownKey => (fmt.status = "err" /\ fmt.f = << >>)

\* an unknown key in the last place, after arguments that are all accepted
C6_Witness ==
    /\ C6_HasUnknownKey
    /\ Len(args) = MaxArgs
    /\ \A i \in 1..(Len(args) - 1) :
          new_formatter(name, SubSeq(args, 1, i), 0).status = "ok"
    /\ fmt.status = "err"

----------------------------------------------------------------------------
(* C7 *)

\* the fill level a glyph stands for
GlyphLevel(g) == CHOOSE k \in 0..8 : VERTICAL_BAR_CHARS[k + 1] = g

\* C7: for every bar formatter and every Number, format returns exactly width
\* characters, each one of the 9 glyphs of the table, and the fill level
\* never increases from left to right.
C7_BarShape ==
    (Called("bar") /\ last.val.tag = "Number") =>
        /\ last.res.kind = "ok"
        /\ Len(last.res.out) = fmt.f.width
        /\ Range(last.res.out) \subseteq Range(VERTICAL_BAR_CHARS)
        /\ \A i \in 1..(Len(last.res.out) - 1) :
              GlyphLevel(last.res.out[i]) >= GlyphLevel(last.res.out[i + 1])

\* a value above max_value has saturated to a full bar
C7_Witness ==
    /\ Called("bar")
    /\ last.val.tag = "Number"
    /\ ~fmt.f.max_value.nan
    /\ fmt.f.max_value.n > 0
    /\ FLt(fmt.f.max_value, last.val.val)
    /\ fmt.f.width > 0
    /\ \A i \in 1..Len(last.res.out) : GlyphLevel(last.res.out[i]) = 8

----------------------------------------------------------------------------
(* C8 *)

C8_Case ==
    /\ Called("bar")
    /\ fmt.f.width = 5
    /\ fmt.f.max_value = F(100, 1)
    /\ last.val = Number(F(50, 1), "None")

\* C8 as stated: the middle cell of the 5 cells is full and the two edge
\* cells are partially filled.
C8_MiddleFullEdgesPartial ==
    C8_Case =>
        /\ last.res.kind = "ok"
        /\ Len(last.res.out) = 5
        /\ GlyphLevel(last.res.out[3]) = 8
        /\ GlyphLevel(last.res.out[1]) \in 1..7
        /\ GlyphLevel(last.res.out[5]) \in 1..7

\* C8, amended: the bar fills from the left: cells 0 and 1 are full, the
\* middle cell (index 2) is half filled (level 4 of 8) and cells 3 and 4 are
\* empty.
C8_HalfBarFromLeft ==
    C8_Case =>
        /\ last.res.kind = "ok"
        /\ Len(last.res.out) = 5
        /\ [i \in 1..5 |-> GlyphLevel(last.res.out[i])] = <<8, 8, 4, 0, 0>>

C8_Witness == C8_Case /\ last.res.out[3] = "u258c"

----------------------------------------------------------------------------
(* C9 *)

C9_Case ==
    /\ Called("eng")
    /\ fmt.f = DEFAULT_NUMBER_FORMATTER
    /\ last.val = Number(F(1536, 1), "Bytes")

\* C9 as stated: the output is "1.5KiB".
C9_OnePointFiveKiB ==
    C9_Case => last.res = Ok(<<"1", ".", "5", "K", "i", "B">>)

\* C9, amended: the output is " 1KB": the decimal kilo prefix (the lower
\* bound of the default window is not a binary prefix), and the magnitude
\* 1.536 floored to a whole number after one space, since width 2 less 1
\* integer digit leaves a budget of 1; no fractional digit is kept.
C9_SpaceOneKB ==
    C9_Case => last.res = Ok(<<" ", "1", "K", "B">>)

C9_Witness == C9_Case /\ name = "eng" /\ last.res.kind = "ok"

----------------------------------------------------------------------------
(* C10 *)

\* the arguments of the model that EngFixConfig::from_args accepts
C10_EngSurface ==
    { A("width", "3"), A("w", "0"), A("unit", "B"), A("u", "b"),
      A("hide_unit", "true"), A("unit_space", "true"), A("prefix", "Ki"),
      A("p", "K"), A("hide_prefix", "true"), A("prefix_space", "true"),
      A("force_prefix", "true") }

\* C10: FixFormatter::format never returns Ok: "not implemented" for every
\* Number, a type mismatch for Text, Icon and Flag; and new_formatter("fix")
\* succeeds on the arguments eng accepts.
C10_FixNeverOk ==
    /\ (name = "fix" /\ Range(args) \subseteq C10_EngSurface) =>
          (fmt.status = "ok" /\ fmt.f.type = "fix")
    /\ Called("fix") =>
          /\ last.res.kind = "err"
          /\ last.val.tag = "Number" =>
                last.res.err = "'fix' formatter is not implemented yet"
          /\ last.val.tag # "Number" => TypeMismatch(last.res)

C10_Witness ==
    /\ Called("fix")
    /\ Len(args) = MaxArgs
    /\ last.val = Number(F(1, 1), "None")
    /\ last.res = Err("'fix' formatter is not implemented yet")

----------------------------------------------------------------------------
(* C11 *)

\* the pending updates of a package list: the lines get_update_count counts
C11_Pending(list) == SelectSeq(list, LAMBDA line : ~ContainsIgnored(line))

\* the state C11 gives a block with this regex after it read this list
C11_State(regex, list) ==
    IF IsSome(regex)
         /\ \E i \in 1..Len(C11_Pending(list)) :
               IsMatch(Unwrap(regex), C11_Pending(list)[i])
    THEN "Critical"
    ELSE IF Len(C11_Pending(list)) = 0 THEN "Idle"
    ELSE "Info"

\* C11 as stated: once update() has succeeded, and after any further calls of
\* update() and click(), the state of the block is Critical if and only if a
\* regex is configured and a pending update (a line of the latest list
\* without "[ignored]") matches it; otherwise it is Idle for no pending
\* update and Info for at least one.
C11_StateFollowsPendingUpdates ==
    (pacman.status = "ok" /\ IsSome(packages)) =>
        pacman.b.output.state =
            C11_State(pacman.b.critical_updates_regex, Unwrap(packages))

----------------------------------------------------------------------------
(* C12 *)

\* the unit and the magnitude the last eng call scaled: the value's own, or
\* the converted ones when a unit is configured
C12_Unit == IF IsSome(fmt.f.unit) THEN Unwrap(fmt.f.unit) ELSE last.val.unit

C12_Val ==
    IF IsSome(fmt.f.unit)
    THEN Unwrap(UnitConvert(last.val.unit, last.val.val, Unwrap(fmt.f.unit)))
    ELSE last.val.val

\* the last eng call scaled a number
C12_Scaled == Called("eng") /\ last.val.tag = "Number" /\ last.res.kind = "ok"

\* the prefix automatic scaling proposes, before the window is applied
C12_Auto(binary) ==
    UnitClampPrefix(C12_Unit, IF binary THEN PrefixEngBinary(C12_Val)
                              ELSE PrefixEng(C12_Val))

\* the rendering of the last value under prefix p
C12_Rendered(p) ==
    EngNumeral(fmt.f.width, PrefixApply(p, C12_Val)) \o EngSuffix(fmt.f, p, C12_Unit)

\* C12: the prefix EngFormatter::format applies to the magnitude lies inside
\* the configured window, for every value and unit: exactly p when p is
\* configured and forced, in [p, max_available] when p is configured and not
\* forced, in [min_available, max_available] when none is configured
\* (whatever force_prefix is); the output is the rendering under that prefix;
\* and the prefix is the binary proposal brought into the window exactly when
\* the lower bound of the window is binary, the decimal one otherwise.
C12_PrefixInsideWindow ==
    C12_Scaled =>
        LET p == EngPrefix(fmt.f, C12_Unit, C12_Val)
            lo == IF IsSome(fmt.f.prefix) THEN Unwrap(fmt.f.prefix)
                  ELSE PrefixMinAvailable
        IN /\ last.res.out = C12_Rendered(p)
           /\ (IsSome(fmt.f.prefix) /\ fmt.f.prefix_forced) => p = Unwrap(fmt.f.prefix)
           /\ (IsSome(fmt.f.prefix) /\ ~fmt.f.prefix_forced) =>
                 (Unwrap(fmt.f.prefix) <= p /\ p <= PrefixMaxAvailable)
           /\ ~IsSome(fmt.f.prefix) =>
                 (PrefixMinAvailable <= p /\ p <= PrefixMaxAvailable)
           /\ p = PrefixClamp(C12_Auto(PrefixIsBinary(lo)), lo,
                              IF IsSome(fmt.f.prefix) /\ fmt.f.prefix_forced
                              THEN lo ELSE PrefixMaxAvailable)

\* a forced Ki on a percentage, a unit that allows no prefix: Ki is applied
C12_Witness ==
    /\ C12_Scaled
    /\ fmt.f.prefix = Some(P("Kibi"))
    /\ fmt.f.prefix_forced
    /\ last.val = Number(F(150, 1), "Percents")
    /\ C12_Auto(TRUE) = P("One")
    /\ last.res.out = C12_Rendered(P("Kibi"))
    /\ last.res.out # C12_Rendered(P("One"))

====
